---- MODULE Spec2Model ----
(***************************************************************************)
(* bread: a minimal static site generator (src/src/main.rs).               *)
(*                                                                         *)
(* Text is modelled as a sequence of one-character strings, so that        *)
(* slicing, searching, trimming and splitting are computed the way the     *)
(* code computes them.  Option<T> is a sequence of length 0 (None) or 1    *)
(* (Some).                                                                 *)
(***************************************************************************)
EXTENDS Integers, Sequences, FiniteSets, TLC

VARIABLES
    content,        \* parser harness: the texts handed to Frontmatter::parse
    parsed,         \* parser harness: what parse returned for content[1..Len(parsed)]
    draw,           \* parser harness: how the texts were put together
    pc,             \* build: where build_site stands
    templates,      \* build: which of base.html and posts.html load
    tree,           \* build: the files under the content directory
    md_files,       \* build: what find_markdown_files returned
    posts,          \* build: the sorted PostMetadata of pass 1
    next,           \* build: the index into md_files of pass 2
    output,         \* build: the files written under the output directory, by path
    stdout,         \* build: the "input -> output" lines printed, one per page written
    error,          \* build: the step whose io::Error build_site returned
    exit_code       \* build: the process's exit code, None while it runs

parse_vars == <<content, parsed, draw>>

build_vars == <<pc, templates, tree, md_files, posts, next, output, stdout, error, exit_code>>

vars == <<content, parsed, draw, pc, templates, tree, md_files, posts, next, output, stdout,
          error, exit_code>>

----------------------------------------------------------------------------
(* Option<T> *)

None == <<>>

Some(x) == <<x>>

(* str helpers of the standard library, as the parser uses them *)

NL == "\n"

MinOf(S) == CHOOSE i \in S : \A j \in S : i <= j

MaxOf(S) == CHOOSE i \in S : \A j \in S : j <= i

\* s[from..] with a 0-based byte offset
slice_from(s, from) == SubSeq(s, from + 1, Len(s))

\* s[from..to] with 0-based byte offsets, end exclusive
slice(s, from, to) == SubSeq(s, from + 1, to)

starts_with(s, pat) == Len(s) >= Len(pat) /\ SubSeq(s, 1, Len(pat)) = pat

\* str::find: the 0-based offset of the first occurrence, as an Option
find(s, pat) ==
    LET hits == {i \in 0..(Len(s) - Len(pat)) : SubSeq(s, i + 1, i + Len(pat)) = pat}
    IN  IF hits = {} THEN None ELSE Some(MinOf(hits))

contains(s, pat) == find(s, pat) # None

is_whitespace(c) == c \in {" ", "\t", "\n", "\r"}

trim_start(s) ==
    LET keep == {i \in 1..Len(s) : ~is_whitespace(s[i])}
    IN  IF keep = {} THEN <<>> ELSE SubSeq(s, MinOf(keep), Len(s))

trim(s) ==
    LET keep == {i \in 1..Len(s) : ~is_whitespace(s[i])}
    IN  IF keep = {} THEN <<>> ELSE SubSeq(s, MinOf(keep), MaxOf(keep))

\* one line of str::lines: the terminator "\n" is already cut off, a "\r"
\* before it goes too
strip_cr(l) == IF Len(l) > 0 /\ l[Len(l)] = "\r" THEN SubSeq(l, 1, Len(l) - 1) ELSE l

RECURSIVE lines(_)
lines(s) ==
    IF s = <<>> THEN <<>>
    ELSE LET p == find(s, <<NL>>)
         IN  IF p = None THEN <<s>>
             ELSE <<strip_cr(slice(s, 0, p[1]))>> \o lines(slice_from(s, p[1] + 1))

RECURSIVE split(_, _)
split(s, sep) ==
    LET p == find(s, <<sep>>)
    IN  IF p = None THEN <<s>>
        ELSE <<slice(s, 0, p[1])>> \o split(slice_from(s, p[1] + 1), sep)

RECURSIVE concat(_)
concat(ss) == IF ss = <<>> THEN <<>> ELSE Head(ss) \o concat(Tail(ss))

\* [T]::join(sep) on strings
RECURSIVE join(_, _)
join(ss, sep) ==
    IF ss = <<>> THEN <<>>
    ELSE IF Len(ss) = 1 THEN ss[1]
    ELSE ss[1] \o sep \o join(Tail(ss), sep)

SelectNonEmpty(ss) == SelectSeq(ss, LAMBDA x : x # <<>>)

MapTrim(ss) == [i \in 1..Len(ss) |-> trim(ss[i])]

----------------------------------------------------------------------------
(* the literals of Frontmatter::parse *)

DASHES == <<"-", "-", "-">>

CLOSER == <<NL, "-", "-", "-">>

K_title == <<"t", "i", "t", "l", "e">>

K_date == <<"d", "a", "t", "e">>

K_slug == <<"s", "l", "u", "g">>

K_tags == <<"t", "a", "g", "s">>

\* Frontmatter::default()
Frontmatter_default == [title |-> None, date |-> None, tags |-> None, slug |-> None]

\* the key-value branch of the loop body (lines 88-119)
key_value(st, trimmed, colon_pos) ==
    LET st1 == IF st.current_key = Some(K_tags) /\ st.tag_list # <<>>
               THEN [st EXCEPT !.frontmatter.tags = Some(st.tag_list), !.tag_list = <<>>]
               ELSE st
        key == trim(slice(trimmed, 0, colon_pos))
        value == trim(slice_from(trimmed, colon_pos + 1))
        st2 == [st1 EXCEPT !.current_key = Some(key)]
    IN  CASE key = K_title -> [st2 EXCEPT !.frontmatter.title = Some(value)]
          [] key = K_date -> [st2 EXCEPT !.frontmatter.date = Some(value)]
          [] key = K_slug -> [st2 EXCEPT !.frontmatter.slug = Some(value)]
          [] key = K_tags ->
                IF value # <<>>
                THEN [st2 EXCEPT !.frontmatter.tags =
                                     Some(SelectNonEmpty(MapTrim(split(value, ",")))),
                                 !.current_key = None]
                ELSE st2
          [] OTHER -> [st2 EXCEPT !.current_key = None]

\* a slip: the "-" of a list item is left on the tag
list_item_keeps_dash(st, trimmed) ==
    IF st.current_key = Some(K_tags)
    THEN LET tag == trim(trimmed)
         IN  IF tag # <<>> THEN [st EXCEPT !.tag_list = Append(st.tag_list, tag)] ELSE st
    ELSE st

\* the list-item branch of the loop body (lines 78-86)
list_item(st, trimmed) ==
    IF st.current_key = Some(K_tags)
    THEN LET tag == trim(slice_from(trimmed, 1))
         IN  IF tag # <<>> THEN [st EXCEPT !.tag_list = Append(st.tag_list, tag)] ELSE st
    ELSE st

\* a slip: a line with neither "-" nor ":" commits the list and ends the block
parse_line_neither_ends(st, line) ==
    LET trimmed == trim(line)
    IN  IF trimmed = <<>> THEN st
        ELSE IF starts_with(trimmed, <<"-">>) THEN list_item(st, trimmed)
        ELSE LET colon_pos == find(trimmed, <<":">>)
             IN  IF colon_pos = None
                 THEN IF st.current_key = Some(K_tags) /\ st.tag_list # <<>>
                      THEN [st EXCEPT !.frontmatter.tags = Some(st.tag_list),
                                      !.tag_list = <<>>,
                                      !.current_key = None]
                      ELSE [st EXCEPT !.current_key = None]
                 ELSE key_value(st, trimmed, colon_pos[1])

\* one iteration of `while let Some(line) = lines.next()`
parse_line(st, line) ==
    LET trimmed == trim(line)
    IN  IF trimmed = <<>> THEN st
        ELSE IF starts_with(trimmed, <<"-">>) THEN list_item(st, trimmed)
        ELSE LET colon_pos == find(trimmed, <<":">>)
             IN  IF colon_pos = None THEN st ELSE key_value(st, trimmed, colon_pos[1])

RECURSIVE parse_lines(_, _)
parse_lines(st, ls) ==
    IF ls = <<>> THEN st ELSE parse_lines(parse_line(st, Head(ls)), Tail(ls))

\* the commit after the loop (lines 122-125)
parse_finish(st) ==
    IF st.current_key = Some(K_tags) /\ st.tag_list # <<>>
    THEN [st.frontmatter EXCEPT !.tags = Some(st.tag_list)]
    ELSE st.frontmatter

\* a slip: the closing marker sought without its newline
find_closer_without_newline(text) == find(slice_from(text, 3), DASHES)

\* content[3..].find("\n---")
find_closer(text) == find(slice_from(text, 3), CLOSER)

\* Frontmatter::parse(content) -> (Self, &str)
Frontmatter_parse(text) ==
    IF ~starts_with(text, DASHES)
    THEN [frontmatter |-> Frontmatter_default, body |-> text]
    ELSE LET end == find_closer(text)
         IN  IF end = None
             THEN [frontmatter |-> Frontmatter_default, body |-> text]
             ELSE LET end_pos == end[1]
                      fm_section == slice(text, 3, 3 + end_pos)
                      markdown_content == slice_from(text, 3 + end_pos + 4)
                      st0 == [frontmatter |-> Frontmatter_default,
                              current_key |-> None,
                              tag_list |-> <<>>]
                  IN  [frontmatter |-> parse_finish(parse_lines(st0, lines(fm_section))),
                       body |-> trim_start(markdown_content)]

----------------------------------------------------------------------------
(* std::path, on "/"-separated texts *)

SLASH == <<"/">>

HTML == <<".", "h", "t", "m", "l">>

\* the 1-based positions of character c in s
positions(s, c) == {i \in 1..Len(s) : s[i] = c}

\* Path::components, without empty ones
components(p) == SelectNonEmpty(split(p, "/"))

\* PathBuf::push / Path::join: an absolute argument replaces the path
path_join(base, p) ==
    IF starts_with(p, SLASH) THEN p
    ELSE IF base = <<>> THEN p
    ELSE IF base[Len(base)] = "/" THEN base \o p
    ELSE base \o SLASH \o p

\* Path::parent
parent(p) ==
    LET sl == positions(p, "/")
    IN  IF p = <<>> THEN None
        ELSE IF sl = {} THEN Some(<<>>)
        ELSE Some(SubSeq(p, 1, MaxOf(sl) - 1))

\* Path::file_name
file_name(p) ==
    LET cs == components(p)
    IN  IF cs = <<>> THEN None ELSE Some(cs[Len(cs)])

\* Path::file_stem: the file name up to its last ".", all of it when the only
\* "." is the first character or there is none
file_stem(p) ==
    LET n == file_name(p)
    IN  IF n = None THEN None
        ELSE LET dots == positions(n[1], ".")
             IN  IF dots = {} \/ MaxOf(dots) = 1 THEN n
                 ELSE Some(SubSeq(n[1], 1, MaxOf(dots) - 1))

\* Path::extension
extension(p) ==
    LET n == file_name(p)
    IN  IF n = None THEN None
        ELSE LET dots == positions(n[1], ".")
             IN  IF dots = {} \/ MaxOf(dots) = 1 THEN None
                 ELSE Some(SubSeq(n[1], MaxOf(dots) + 1, Len(n[1])))

\* Path::strip_prefix(base).ok(): by components
strip_prefix(p, base) ==
    LET cs == components(p)
        bc == components(base)
    IN  IF Len(bc) <= Len(cs) /\ SubSeq(cs, 1, Len(bc)) = bc
        THEN Some(join(SubSeq(cs, Len(bc) + 1, Len(cs)), SLASH))
        ELSE None

unwrap_or(opt, dflt) == IF opt = None THEN dflt ELSE opt[1]

----------------------------------------------------------------------------
(* str::cmp: bytewise, lexicographic *)

\* the characters of the model in ascending byte order
BYTE_ORDER ==
    << "\t", "\n", "\r", " ", "#", "-", ".", "/", "0", "1", "2", "9", ":",
       "B", "T", "a", "b", "c", "d", "e", "g", "i", "l", "m", "n", "o", "p",
       "s", "t", "u", "x", "y" >>

byte(c) == CHOOSE i \in 1..Len(BYTE_ORDER) : BYTE_ORDER[i] = c

\* a < b
RECURSIVE str_lt(_, _)
str_lt(a, b) ==
    IF b = <<>> THEN FALSE
    ELSE IF a = <<>> THEN TRUE
    ELSE IF a[1] = b[1] THEN str_lt(Tail(a), Tail(b))
    ELSE byte(a[1]) < byte(b[1])

Front(s) == SubSeq(s, 1, Len(s) - 1)

Last(s) == s[Len(s)]

\* a slip: equal dates compare as less, so ties change places
date_is_less_or_equal(a, b) == ~str_lt(a.date, b.date)

\* the comparator of posts.sort_by: b.date.cmp(&a.date) == Less
date_is_less(a, b) == str_lt(b.date, a.date)

\* slice::sort_by, stable: an element moves left past those it is less than
RECURSIVE sort_insert(_, _)
sort_insert(sorted, x) ==
    IF sorted = <<>> THEN <<x>>
    ELSE IF date_is_less(x, Last(sorted))
         THEN Append(sort_insert(Front(sorted), x), Last(sorted))
         ELSE Append(sorted, x)

RECURSIVE sort_by_date(_)
sort_by_date(v) ==
    IF v = <<>> THEN <<>> ELSE sort_insert(sort_by_date(Front(v)), Last(v))

\* Vec<String>::sort then dedup
RECURSIVE sort_dedup(_)
sort_dedup(S) ==
    IF S = {} THEN <<>>
    ELSE LET m == CHOOSE x \in S : \A y \in S \ {x} : str_lt(x, y)
         IN  <<m>> \o sort_dedup(S \ {m})

----------------------------------------------------------------------------
(* the file system the build reads: a set of files [path, text], text None *)
(* for a file that cannot be read as UTF-8 text                            *)

\* fs::read_to_string
read_to_string(fs, path) ==
    IF \E f \in fs : f.path = path
    THEN (CHOOSE f \in fs : f.path = path).text
    ELSE None

is_dir(fs, p) == \E f \in fs : starts_with(f.path, p \o SLASH)

\* fs::read_dir: the entries of directory dir, as paths
read_dir(fs, dir) ==
    { path_join(dir, components(slice_from(f.path, Len(dir) + 1))[1]) :
        f \in {g \in fs : starts_with(g.path, dir \o SLASH)} }

Permutations_of(S) ==
    {q \in [1..Cardinality(S) -> S] : \A i, j \in 1..Cardinality(S) : q[i] = q[j] => i = j}

MD == <<"m", "d">>

\* find_markdown_files: every sequence the traversal can yield, read_dir's
\* order being the file system's
RECURSIVE find_markdown_files(_, _)
RECURSIVE walk_entries(_, _)
walk_entries(fs, entries) ==
    IF entries = <<>> THEN {<<>>}
    ELSE LET path == Head(entries)
             here == IF is_dir(fs, path) THEN find_markdown_files(fs, path)
                     ELSE IF extension(path) = Some(MD) THEN {<<path>>}
                     ELSE {<<>>}
         IN  {h \o t : h \in here, t \in walk_entries(fs, Tail(entries))}

find_markdown_files(fs, dir) ==
    IF ~is_dir(fs, dir) THEN {<<>>}
    ELSE UNION {walk_entries(fs, order) : order \in Permutations_of(read_dir(fs, dir))}

----------------------------------------------------------------------------
(* the two passes over one file *)

UNTITLED == <<"U", "n", "t", "i", "t", "l", "e", "d">>

OUTPUT_HTML == <<"o", "u", "t", "p", "u", "t">> \o HTML

INDEX == <<"i", "n", "d", "e", "x">>

POSTS_HTML == <<"p", "o", "s", "t", "s">> \o HTML

BREAD == <<"/", "b", "r", "e", "a", "d">>

Err == [ok |-> FALSE]

\* tag.trim().replace(' ', "")
clean_tag(tag) == SelectSeq(trim(tag), LAMBDA c : c # " ")

\* the Markdown engine, seen from outside: a function of the body
markdown_to_html(markdown) == [html_of |-> markdown]

\* TinyTemplate::render, seen from outside: a function of template and context
render(template, context) == [template |-> template, context |-> context]

\* a slip: the substring sought with a capital
is_index_page_capital(output_filename) == contains(output_filename, <<"I", "n", "d", "e", "x">>)

\* the "Skip index pages" test
is_index_page(output_filename) == contains(output_filename, INDEX)

\* collect_post_metadata(md_file, content_path) -> io::Result<Option<PostMetadata>>
collect_post_metadata(fs, md_file, content_path) ==
    LET text == read_to_string(fs, md_file)
    IN  IF text = None THEN Err
        ELSE
        LET frontmatter == Frontmatter_parse(text[1]).frontmatter
            output_filename ==
                IF frontmatter.slug # None THEN frontmatter.slug[1] \o HTML
                ELSE IF file_stem(md_file) # None THEN file_stem(md_file)[1] \o HTML
                ELSE OUTPUT_HTML
            relative_path ==
                IF parent(md_file) = None THEN <<>>
                ELSE unwrap_or(strip_prefix(parent(md_file)[1], content_path), <<>>)
            url == IF relative_path = <<>>
                   THEN SLASH \o output_filename
                   ELSE SLASH \o relative_path \o SLASH \o output_filename
        IN  IF is_index_page(output_filename) THEN [ok |-> TRUE, post |-> None]
            ELSE [ok |-> TRUE,
                  post |-> Some([title |-> unwrap_or(frontmatter.title, UNTITLED),
                                 date |-> unwrap_or(frontmatter.date, <<>>),
                                 tags |-> unwrap_or(frontmatter.tags, <<>>),
                                 url |-> url])]

\* md_files.iter().filter_map(|f| collect_post_metadata(f, content_path).ok().flatten())
RECURSIVE filter_map_posts(_, _, _)
filter_map_posts(fs, files, content_path) ==
    IF files = <<>> THEN <<>>
    ELSE LET r == collect_post_metadata(fs, Head(files), content_path)
             rest == filter_map_posts(fs, Tail(files), content_path)
         IN  IF r.ok /\ r.post # None THEN <<r.post[1]>> \o rest ELSE rest

\* process_markdown_file after its read: lines 146-203
\* io_ok: whether create_dir_all, the render and the write all succeed
render_markdown_file(text, input_path, out_dir, content_path, io_ok) ==
    LET p == Frontmatter_parse(text)
        frontmatter == p.frontmatter
        html_content == markdown_to_html(p.body)
        output_filename ==
            IF frontmatter.slug # None THEN frontmatter.slug[1] \o HTML
            ELSE IF file_stem(input_path) # None THEN file_stem(input_path)[1] \o HTML
            ELSE OUTPUT_HTML
        relative_path ==
            IF parent(input_path) = None THEN <<>>
            ELSE unwrap_or(strip_prefix(parent(input_path)[1], content_path), <<>>)
        output_subdir == path_join(out_dir, relative_path)
        output_path == path_join(output_subdir, output_filename)
        title == unwrap_or(frontmatter.title, UNTITLED)
        date == unwrap_or(frontmatter.date, <<>>)
        tags == unwrap_or(frontmatter.tags, <<>>)
        tags_html == [i \in 1..Len(tags) |-> [class |-> "tag", text |-> clean_tag(tags[i])]]
        context == [title |-> title,
                    content |-> html_content,
                    tags |-> tags_html,
                    keywords |-> join(tags, <<",", " ">>),
                    date |-> date]
    IN  IF ~io_ok THEN Err
        ELSE [ok |-> TRUE,
              path |-> output_path,
              file |-> [from |-> input_path, rendered |-> render("base", context)]]

\* a slip: a failed read taken as empty text (unwrap_or_default for `?`)
process_markdown_file_reads_lossy(fs, input_path, out_dir, content_path, io_ok) ==
    LET text == read_to_string(fs, input_path)
    IN  render_markdown_file(unwrap_or(text, <<>>), input_path, out_dir, content_path, io_ok)

\* process_markdown_file(input_path, output_dir, content_dir, tt) -> io::Result<()>
process_markdown_file(fs, input_path, out_dir, content_path, io_ok) ==
    LET text == read_to_string(fs, input_path)
    IN  IF text = None THEN Err
        ELSE render_markdown_file(text[1], input_path, out_dir, content_path, io_ok)

\* generate_posts_page(posts, output_dir, tt): the PostsContext it renders
posts_context(ps) ==
    LET post_html ==
            [i \in 1..Len(ps) |->
                [href |-> BREAD \o ps[i].url,
                 title |-> ps[i].title,
                 date |-> ps[i].date,
                 tags |-> [k \in 1..Len(ps[i].tags) |->
                              [class |-> "tag clickable-tag",
                               data_tag |-> clean_tag(ps[i].tags[k]),
                               text |-> clean_tag(ps[i].tags[k])]]]]
        all_tags ==
            sort_dedup(UNION {{clean_tag(ps[i].tags[k]) : k \in 1..Len(ps[i].tags)} :
                                 i \in 1..Len(ps)})
    IN  [post_count |-> Len(ps), posts |-> post_html, tag_options |-> all_tags]

\* fs::write: the file at path is replaced
fs_write(out, path, file) == [q \in DOMAIN out \cup {path} |-> IF q = path THEN file ELSE out[q]]

----------------------------------------------------------------------------
(* The parser on its own: Init draws the texts, ParseContent applies      *)
(* Frontmatter::parse to the next one.                                     *)

MaxLen == 7

MaxLines == 4

MaxTags == 3

MaxKeyLines == 1

\* no build runs
NoBuild ==
    /\ pc = "idle" /\ templates = [base |-> TRUE, posts |-> TRUE] /\ tree = {}
    /\ md_files = <<>> /\ posts = <<>> /\ next = 1 /\ output = <<>> /\ stdout = <<>>
    /\ error = None /\ exit_code = None

SeqsUpTo(S, n) == UNION {[1..k -> S] : k \in 0..n}

NoDraw == [kind |-> "raw", lines |-> <<>>, tags |-> <<>>, before |-> <<>>, after |-> <<>>]

\* raw texts over the characters the two markers are made of
RawAlphabet == {"-", NL, "a"}

\* front-matter lines, each with what it is
LineVocabulary ==
    { [text |-> K_tags \o <<":">>,                       kind |-> "tags",    tag |-> <<>>],
      [text |-> <<"-", " ", "a">>,                       kind |-> "item",    tag |-> <<"a">>],
      [text |-> <<" ", "-", "b", " ">>,                  kind |-> "item",    tag |-> <<"b">>],
      [text |-> <<"f", "o", "o">>,                       kind |-> "neither", tag |-> <<>>],
      [text |-> K_title \o <<":", " ", "T">>,            kind |-> "key",     tag |-> <<>>],
      [text |-> <<"x", ":", " ", "y">>,                  kind |-> "key",     tag |-> <<>>],
      [text |-> <<" ">>,                                 kind |-> "empty",   tag |-> <<>>] }

\* tags: non-empty, trimmed, without comma or newline
TagVocabulary == { <<"a">>, <<"b", " ", "c">>, <<"-", "x", ":", "y">> }

\* lines of the other recognized keys
KeyLineVocabulary ==
    { K_title \o <<":", " ", "T">>, K_date \o <<":", "1">>, K_slug \o <<":", " ", "s">> }

Texts(ls) == [i \in 1..Len(ls) |-> ls[i].text]

\* a document: opening marker, the lines, closing marker, a body
Document(ls) == DASHES \o <<NL>> \o concat([i \in 1..Len(ls) |-> ls[i] \o <<NL>>])
                    \o DASHES \o <<NL, "B">>

InlineTags(ts) == K_tags \o <<":", " ">> \o join(ts, <<",", " ">>)

BlockTags(ts) == <<K_tags \o <<":">>>> \o [i \in 1..Len(ts) |-> <<"-", " ">> \o ts[i]]

InitRaw ==
    /\ NoBuild
    /\ \E t \in SeqsUpTo(RawAlphabet, MaxLen) : content = <<t>>
    /\ parsed = <<>>
    /\ draw = NoDraw

InitLines ==
    /\ NoBuild
    /\ \E ls \in SeqsUpTo(LineVocabulary, MaxLines) :
          /\ draw = [NoDraw EXCEPT !.kind = "lines", !.lines = ls]
          /\ content = <<Document(Texts(ls))>>
    /\ parsed = <<>>

InitForms ==
    /\ NoBuild
    /\ \E ts \in SeqsUpTo(TagVocabulary, MaxTags) \ {<<>>},
          b \in SeqsUpTo(KeyLineVocabulary, MaxKeyLines),
          a \in SeqsUpTo(KeyLineVocabulary, MaxKeyLines) :
          /\ draw = [NoDraw EXCEPT !.kind = "forms", !.tags = ts, !.before = b, !.after = a]
          /\ content = << Document(b \o <<InlineTags(ts)>> \o a),
                          Document(b \o BlockTags(ts) \o a) >>
    /\ parsed = <<>>

ParseContent ==
    /\ Len(parsed) < Len(content)
    /\ parsed' = Append(parsed, Frontmatter_parse(content[Len(parsed) + 1]))
    /\ UNCHANGED <<content, draw>>
    /\ UNCHANGED build_vars

NextParse == ParseContent

SpecRaw == InitRaw /\ [][NextParse]_vars

SpecLines == InitLines /\ [][NextParse]_vars

SpecForms == InitForms /\ [][NextParse]_vars

----------------------------------------------------------------------------
(* The build: `bread build -c c -o p`                                     *)

MaxFiles == 3

content_dir == <<"c">>

output_dir == <<"p">>

\* the .md files the content directory may hold, each with its stem and its
\* directory relative to the content root
MdPaths ==
    { [path |-> <<"c", "/", "a", ".", "m", "d">>,     stem |-> <<"a">>, subdir |-> <<>>],
      [path |-> <<"c", "/", "i", "n", "d", "e", "x", ".", "m", "d">>, stem |-> INDEX,   subdir |-> <<>>],
      [path |-> <<"c", "/", "p", "o", "s", "t", "s", ".", "m", "d">>, stem |-> <<"p", "o", "s", "t", "s">>, subdir |-> <<>>],
      [path |-> <<"c", "/", "s", "/", "a", ".", "m", "d">>,   stem |-> <<"a">>, subdir |-> <<"s">>] }

\* a file discovery has to pass over
OtherFiles == { [path |-> <<"c", "/", "n", ".", "t", "x", "t">>, text |-> Some(<<"B">>)] }

\* what a .md file may hold, each with the front-matter written into it
MdTexts ==
    { [text |-> <<"B">>,
       slug |-> None, date |-> <<>>, title |-> UNTITLED, tags |-> <<>>],
      [text |-> Document(<<K_slug \o <<":", " ", "x">>, K_date \o <<":", " ", "9">>>>),
       slug |-> Some(<<"x">>), date |-> <<"9">>, title |-> UNTITLED, tags |-> <<>>],
      [text |-> Document(<<K_slug \o <<":", " ">> \o INDEX, K_date \o <<":", " ", "2">>>>),
       slug |-> Some(INDEX), date |-> <<"2">>, title |-> UNTITLED, tags |-> <<>>],
      [text |-> Document(<<K_title \o <<":", " ", "T">>, K_date \o <<":", " ", "1", "0">>,
                           K_tags \o <<":", " ", "b", ",", "a", " ", "b">>,
                           K_slug \o <<":", " ", "/", "x">>>>),
       slug |-> Some(<<"/", "x">>), date |-> <<"1", "0">>, title |-> <<"T">>,
       tags |-> << <<"b">>, <<"a", " ", "b">> >>] }

\* a file's text, None when it cannot be read
TextChoices == {Some(t.text) : t \in MdTexts} \cup {None}

InitBuild ==
    /\ content = <<>> /\ parsed = <<>> /\ draw = NoDraw
    /\ pc = "start"
    /\ templates \in [base : BOOLEAN, posts : BOOLEAN]
    /\ \E chosen \in SUBSET MdPaths :
          /\ Cardinality(chosen) <= MaxFiles
          /\ \E holds \in [chosen -> TextChoices] :
                tree = {[path |-> m.path, text |-> holds[m]] : m \in chosen} \cup OtherFiles
    /\ md_files = <<>> /\ posts = <<>> /\ next = 1
    /\ output = <<>> /\ stdout = <<>>
    /\ error = None /\ exit_code = None

\* a slip: the error is printed and the process still exits with 0
Fail_exit_zero(step) ==
    /\ pc' = "failed"
    /\ error' = Some(step)
    /\ exit_code' = Some(0)

\* build_site returns Err at `step`; main prints it and exits with 1
Fail(step) ==
    /\ pc' = "failed"
    /\ error' = Some(step)
    /\ exit_code' = Some(1)

\* lines 366-370: the output directory
CreateOutputDir ==
    /\ pc = "start"
    /\ \E io_ok \in BOOLEAN :
          IF io_ok THEN pc' = "templates" /\ UNCHANGED <<error, exit_code>>
          ELSE Fail("output_dir")
    /\ UNCHANGED <<templates, tree, md_files, posts, next, output, stdout>>

\* lines 372-383: both templates are read and compiled
LoadTemplates ==
    /\ pc = "templates"
    /\ IF templates.base /\ templates.posts
       THEN pc' = "discover" /\ UNCHANGED <<error, exit_code>>
       ELSE Fail("templates")
    /\ UNCHANGED <<templates, tree, md_files, posts, next, output, stdout>>

\* lines 386-392: file discovery
Discover ==
    /\ pc = "discover"
    /\ \/ \E files \in find_markdown_files(tree, content_dir) :
             /\ md_files' = files
             /\ pc' = IF files = <<>> THEN "static" ELSE "pass1"
             /\ UNCHANGED <<error, exit_code>>
       \/ Fail("discover") /\ UNCHANGED md_files
    /\ UNCHANGED <<templates, tree, posts, next, output, stdout>>

\* lines 394-400: pass 1, collect and sort
CollectPosts ==
    /\ pc = "pass1"
    /\ posts' = sort_by_date(filter_map_posts(tree, md_files, content_dir))
    /\ pc' = "pass2"
    /\ UNCHANGED <<templates, tree, md_files, next, output, stdout, error, exit_code>>

\* lines 402-405: pass 2, one iteration of the loop
RenderPage ==
    /\ pc = "pass2"
    /\ \E io_ok \in BOOLEAN :
          LET r == process_markdown_file(tree, md_files[next], output_dir, content_dir, io_ok)
          IN  IF r.ok
              THEN /\ output' = fs_write(output, r.path, r.file)
                   /\ stdout' = Append(stdout, [input |-> md_files[next], output |-> r.path])
                   /\ next' = next + 1
                   /\ pc' = IF next = Len(md_files) THEN "aggregate" ELSE "pass2"
                   /\ UNCHANGED <<error, exit_code>>
              ELSE /\ Fail("pass2")
                   /\ UNCHANGED <<output, stdout, next>>
    /\ UNCHANGED <<templates, tree, md_files, posts>>

\* lines 407-410: the aggregate page, when there is a post
GeneratePostsPage ==
    /\ pc = "aggregate"
    /\ IF posts = <<>>
       THEN pc' = "static" /\ UNCHANGED <<output, error, exit_code>>
       ELSE \E io_ok \in BOOLEAN :
              IF io_ok
              THEN /\ output' = fs_write(output, path_join(output_dir, POSTS_HTML),
                                         [from |-> <<>>,
                                          rendered |-> render("posts", posts_context(posts))])
                   /\ pc' = "static"
                   /\ UNCHANGED <<error, exit_code>>
              ELSE Fail("aggregate") /\ UNCHANGED output
    /\ UNCHANGED <<templates, tree, md_files, posts, next, stdout>>

STYLE_CSS == <<"n", ".", "c", "s", "s">>

\* lines 413-435: ./static, when it is there, is copied into the output
CopyStatic ==
    /\ pc = "static"
    /\ \E static_exists \in BOOLEAN, io_ok \in BOOLEAN :
          IF ~static_exists
          THEN pc' = "done" /\ exit_code' = Some(0) /\ UNCHANGED <<output, error>>
          ELSE IF io_ok
          THEN /\ output' = fs_write(output, path_join(output_dir, STYLE_CSS),
                                     [from |-> <<"s", "t", "a", "t", "i", "c", "/">> \o STYLE_CSS,
                                      rendered |-> render("copy", <<>>)])
               /\ pc' = "done" /\ exit_code' = Some(0) /\ UNCHANGED error
          ELSE Fail("static") /\ UNCHANGED output
    /\ UNCHANGED <<templates, tree, md_files, posts, next, stdout>>

Next ==
    \/ (CreateOutputDir /\ UNCHANGED parse_vars)
    \/ (LoadTemplates /\ UNCHANGED parse_vars)
    \/ (Discover /\ UNCHANGED parse_vars)
    \/ (CollectPosts /\ UNCHANGED parse_vars)
    \/ (RenderPage /\ UNCHANGED parse_vars)
    \/ (GeneratePostsPage /\ UNCHANGED parse_vars)
    \/ (CopyStatic /\ UNCHANGED parse_vars)

Spec == InitBuild /\ [][Next]_vars

----------------------------------------------------------------------------
(* Claims about Frontmatter::parse                                         *)

\* the text begins with the three characters ---
BeginsWithMarker(t) == Len(t) >= 3 /\ t[1] = "-" /\ t[2] = "-" /\ t[3] = "-"

\* "\n---" occurs at some 0-based offset i >= 3
HasClosingMarker(t) ==
    \E i \in 3..(Len(t) - 4) :
        t[i + 1] = NL /\ t[i + 2] = "-" /\ t[i + 3] = "-" /\ t[i + 4] = "-"

\* C4: a text that does not begin with "---", or begins with it but has no
\* "\n---" at or after offset 3, parses to the default Frontmatter and itself
\* as the body, untrimmed, the opening marker still in it.
C4_NoFrontMatterIsIdentity ==
    \A k \in 1..Len(parsed) :
        (draw.kind = "raw" /\ ~(BeginsWithMarker(content[k]) /\ HasClosingMarker(content[k])))
            => parsed[k] = [frontmatter |-> Frontmatter_default, body |-> content[k]]

\* C4's case: an opening marker, a newline after it, no closing marker, parsed
C4_Witness ==
    /\ draw.kind = "raw" /\ Len(parsed) = 1
    /\ BeginsWithMarker(content[1]) /\ ~HasClosingMarker(content[1])
    /\ Len(content[1]) = 6 /\ content[1][4] = NL /\ content[1][5] = "-"
    /\ parsed[1].body = content[1]

\* C9: the inline form and the block form of the same non-empty tag sequence
\* parse to that sequence, in order, whatever recognized key lines stand
\* before and after the tags entry; the rest of the front-matter agrees too.
C9_InlineAndBlockAgree ==
    (draw.kind = "forms" /\ Len(parsed) = 2)
        => /\ parsed[1].frontmatter.tags = Some(draw.tags)
           /\ parsed[2].frontmatter.tags = Some(draw.tags)
           /\ parsed[1].frontmatter = parsed[2].frontmatter

\* C9's case: several tags, one of them with "-" and ":", key lines on both sides
C9_Witness ==
    /\ draw.kind = "forms" /\ Len(parsed) = 2
    /\ Len(draw.tags) = 3 /\ draw.tags[2] = <<"-", "x", ":", "y">>
    /\ draw.tags[3] = <<"b", " ", "c">>
    /\ draw.before # <<>> /\ draw.after # <<>>
    /\ parsed[2].frontmatter.tags = Some(draw.tags)

\* the single "tags:" line of the drawn front-matter, when there is exactly one
TagsLines(ls) == {i \in 1..Len(ls) : ls[i].kind = "tags"}

TheTagsLine(ls) == CHOOSE i \in TagsLines(ls) : TRUE

\* the first line after line i of one of the kinds, Len + 1 when there is none
FirstAfter(ls, i, kinds) ==
    MinOf({j \in (i + 1)..Len(ls) : ls[j].kind \in kinds} \cup {Len(ls) + 1})

\* the tags of the list items strictly between lines i and j
ItemsBetween(ls, i, j) ==
    LET its == SelectSeq(SubSeq(ls, i + 1, j - 1), LAMBDA l : l.kind = "item")
    IN  [k \in 1..Len(its) |-> its[k].tag]

ItemAfter(ls, j) == \E k \in (j + 1)..Len(ls) : ls[k].kind = "item"

\* C10 as claimed: with one block "tags:" line, accumulation ends at the first
\* following non-empty line that is not a list item (a key-value line or a
\* line with neither "-" nor ":"), and the items up to there are the tags.
C10_AsClaimed ==
    (draw.kind = "lines" /\ Len(parsed) = 1 /\ Cardinality(TagsLines(draw.lines)) = 1)
        => LET i == TheTagsLine(draw.lines)
               j == FirstAfter(draw.lines, i, {"key", "neither"})
               items == ItemsBetween(draw.lines, i, j)
           IN  items # <<>> => parsed[1].frontmatter.tags = Some(items)

\* C10 amended: with one block "tags:" line, accumulation ends at the first
\* following key-value line (a non-list line with a ":"); a line with neither
\* "-" nor ":" is skipped and ends nothing.  The items up to the key-value
\* line (or the end of the section) are the tags, later items add nothing,
\* and with no item collected tags stays None.
C10_EndsAtKeyValueLine ==
    (draw.kind = "lines" /\ Len(parsed) = 1 /\ Cardinality(TagsLines(draw.lines)) = 1)
        => LET i == TheTagsLine(draw.lines)
               j == FirstAfter(draw.lines, i, {"key"})
               items == ItemsBetween(draw.lines, i, j)
           IN  parsed[1].frontmatter.tags = IF items = <<>> THEN None ELSE Some(items)

\* C10's case: items, then a key-value line, then another item, parsed
C10_Witness ==
    /\ draw.kind = "lines" /\ Len(parsed) = 1
    /\ Cardinality(TagsLines(draw.lines)) = 1
    /\ LET i == TheTagsLine(draw.lines)
           j == FirstAfter(draw.lines, i, {"key"})
       IN  /\ j <= Len(draw.lines)
           /\ ItemsBetween(draw.lines, i, j) # <<>>
           /\ ItemAfter(draw.lines, j)
           /\ parsed[1].frontmatter.tags = Some(ItemsBetween(draw.lines, i, j))

----------------------------------------------------------------------------
(* Claims about the build.  What a file is expected to yield is read off   *)
(* MdPaths and MdTexts, not computed by the code's functions.              *)

PathInfo(path) == CHOOSE m \in MdPaths : m.path = path

FileText(path) == (CHOOSE f \in tree : f.path = path).text

Readable(path) == FileText(path) # None

TextInfo(path) == CHOOSE t \in MdTexts : t.text = FileText(path)[1]

\* "{slug}.html" if a slug is present, else "{stem}.html"
ExpectedFilename(path) ==
    IF TextInfo(path).slug # None THEN TextInfo(path).slug[1] \o HTML
    ELSE PathInfo(path).stem \o HTML

HasIndex(name) ==
    \E i \in 1..(Len(name) - 4) :
        /\ name[i] = "i" /\ name[i + 1] = "n" /\ name[i + 2] = "d"
        /\ name[i + 3] = "e" /\ name[i + 4] = "x"

\* "/{output_filename}" or "/{relative_subdir}/{output_filename}"
ExpectedURL(path) ==
    IF PathInfo(path).subdir = <<>> THEN SLASH \o ExpectedFilename(path)
    ELSE SLASH \o PathInfo(path).subdir \o SLASH \o ExpectedFilename(path)

IsPost(path) == Readable(path) /\ ~HasIndex(ExpectedFilename(path))

\* pass 1 is over
Collected ==
    \/ pc \in {"pass2", "aggregate", "static", "done"}
    \/ pc = "failed" /\ error \in {Some("pass2"), Some("aggregate"), Some("static")}

PostFiles == {k \in 1..Len(md_files) : IsPost(md_files[k])}

AggregatePath == output_dir \o SLASH \o POSTS_HTML

PageFiles == {q \in DOMAIN output : output[q].rendered.template = "base"}

AggregateWritten ==
    AggregatePath \in DOMAIN output /\ output[AggregatePath].rendered.template = "posts"

StaticCopied == \E q \in DOMAIN output : output[q].rendered.template = "copy"

Rows == output[AggregatePath].rendered.context.posts

\* C1 as claimed: a build that ends without a fatal error leaves one page file
\* per discovered file, each document's page still its own.
C1_AsClaimed ==
    pc = "done"
        => /\ Cardinality(PageFiles) = Len(md_files)
           /\ \A k \in 1..Len(md_files) :
                 \E q \in PageFiles : output[q].from = md_files[k]

\* C2: once pass 1 is over, a readable document whose output filename contains
\* "index" has no PostMetadata and no row of the aggregate page, every other
\* readable document has one, and pass 2 renders index documents like the
\* rest: every document it has passed was written as a page.
C2_IndexExcludedButRendered ==
    Collected
        => /\ \A k \in 1..Len(md_files) :
                 Readable(md_files[k])
                    => (HasIndex(ExpectedFilename(md_files[k]))
                            <=> ~\E i \in 1..Len(posts) : posts[i].url = ExpectedURL(md_files[k]))
           /\ Len(posts) = Cardinality(PostFiles)
           /\ Len(stdout) = next - 1
           /\ \A k \in 1..Len(stdout) : stdout[k].input = md_files[k]
           /\ pc \in {"aggregate", "static", "done"} => next = Len(md_files) + 1
           /\ AggregateWritten
                 => \A k \in 1..Len(md_files) :
                       (Readable(md_files[k]) /\ HasIndex(ExpectedFilename(md_files[k])))
                          => \A i \in 1..Len(Rows) :
                                Rows[i].href # BREAD \o ExpectedURL(md_files[k])

\* C2's case: a build that ended well with a document index by its stem, one
\* index by its slug, and a post, all three rendered, one listed
C2_Witness ==
    /\ pc = "done" /\ Len(md_files) = 3 /\ Len(stdout) = 3 /\ Len(posts) = 1
    /\ AggregateWritten
    /\ \E k \in 1..3 : Readable(md_files[k]) /\ PathInfo(md_files[k]).stem = INDEX
                         /\ TextInfo(md_files[k]).slug = None
    /\ \E k \in 1..3 : Readable(md_files[k]) /\ PathInfo(md_files[k]).stem # INDEX
                         /\ TextInfo(md_files[k]).slug = Some(INDEX)

\* the dates of MdTexts in ascending string order
DateRank(d) ==
    CASE d = <<>> -> 0
      [] d = <<"1", "0">> -> 1
      [] d = <<"2">> -> 2
      [] d = <<"9">> -> 3

\* document k comes before document l in the listing: later date first, and
\* for equal dates the one discovered first
ListedBefore(k, l) ==
    LET dk == DateRank(TextInfo(md_files[k]).date)
        dl == DateRank(TextInfo(md_files[l]).date)
    IN  dk > dl \/ (dk = dl /\ k < l)

RECURSIVE Listing(_)
Listing(S) ==
    IF S = {} THEN <<>>
    ELSE LET k == CHOOSE x \in S : \A y \in S \ {x} : ListedBefore(x, y)
         IN  <<k>> \o Listing(S \ {k})

\* C3: the rows of the aggregate page are the collected posts, one row each,
\* in descending order of the date string, posts of equal date in the order
\* of discovery.
C3_RowsSortedStable ==
    AggregateWritten
        => LET want == Listing(PostFiles)
           IN  /\ Len(Rows) = Len(want)
               /\ \A i \in 1..Len(Rows) :
                     /\ Rows[i].href = BREAD \o ExpectedURL(md_files[want[i]])
                     /\ Rows[i].date = TextInfo(md_files[want[i]]).date
                     /\ Rows[i].title = TextInfo(md_files[want[i]]).title
               /\ \A i \in 1..(Len(Rows) - 1) :
                     DateRank(Rows[i].date) >= DateRank(Rows[i + 1].date)

\* C3's case: three rows, two of one date at different URLs and one of a later
\* date discovered last
C3_Witness ==
    /\ AggregateWritten /\ Len(Rows) = 3 /\ Len(md_files) = 3
    /\ Rows[2].date = Rows[3].date /\ Rows[2].href # Rows[3].href
    /\ Rows[1].date = <<"9">> /\ Rows[2].date = <<"1", "0">>
    /\ Rows[1].href = BREAD \o ExpectedURL(md_files[3])

\* C5 as claimed: the URL pass 1 records for a post is "/" followed by the
\* path, relative to the output root, of the file pass 2 writes for it.
C5_AsClaimed ==
    \A k \in 1..Len(stdout) :
        LET m == collect_post_metadata(tree, stdout[k].input, content_dir)
        IN  (m.ok /\ m.post # None)
               => /\ \E i \in 1..Len(posts) : posts[i] = m.post[1]
                  /\ stdout[k].output = output_dir \o m.post[1].url

\* the content tree holds no post: every .md file is readable and index
NoPostInTree ==
    \A f \in tree \ OtherFiles : f.text # None /\ HasIndex(ExpectedFilename(f.path))

\* C6 as claimed: with base.html valid, posts.html missing and no post in the
\* content tree, the build does not fail over the templates.
C6_AsClaimed ==
    (templates.base /\ ~templates.posts /\ NoPostInTree) => error # Some("templates")

\* C7: pass 1 leaves an unreadable file out and goes on with the rest, pass 2
\* never gets past such a file, and no build that left one out ends well.
C7_ReadFailureIsFatal ==
    /\ Collected => /\ Len(posts) = Cardinality(PostFiles)
                    /\ \A k \in 1..Len(md_files) :
                          IsPost(md_files[k])
                             => \E i \in 1..Len(posts) : posts[i].url = ExpectedURL(md_files[k])
    /\ \A k \in 1..Len(stdout) : Readable(stdout[k].input)
    /\ pc \in {"pass2", "aggregate", "static", "done"}
          => \A k \in 1..(next - 1) : Readable(md_files[k])
    /\ pc = "done" => \A k \in 1..Len(md_files) : Readable(md_files[k])

\* C7's case: pass 1 listed the posts around an unreadable file, pass 2 wrote
\* a page, then met the unreadable file, and the build failed there
C7_Witness ==
    /\ pc = "failed" /\ error = Some("pass2") /\ exit_code = Some(1)
    /\ Len(md_files) = 3 /\ next = 2 /\ ~Readable(md_files[2])
    /\ Len(posts) = 2

\* the file at each written path is the last one written there
OutputIsWhatWasWritten ==
    /\ PageFiles = {stdout[k].output : k \in 1..Len(stdout)}
    /\ \A k \in 1..Len(stdout) :
          (\A l \in (k + 1)..Len(stdout) : stdout[l].output # stdout[k].output)
             => output[stdout[k].output].from = stdout[k].input

\* C8: the steps run in the order discover, pass 1, pass 2, aggregate, static
\* copy; a failure in pass 2 ends the build with exit code 1, with the pages
\* of the files before the failing one written and still there, no later
\* page, no aggregate page and no static copy.
C8_Pass2FailureAborts ==
    /\ pc \in {"start", "templates", "discover"} => md_files = <<>> /\ posts = <<>>
    /\ pc \in {"start", "templates", "discover", "pass1"} => output = <<>> /\ stdout = <<>>
    /\ pc = "pass2" => DOMAIN output = PageFiles /\ next \in 1..Len(md_files)
    /\ AggregateWritten => next = Len(md_files) + 1 /\ pc \in {"static", "done", "failed"}
    /\ StaticCopied => pc = "done"
    /\ pc = "done" => exit_code = Some(0) /\ error = None
    /\ pc # "done" /\ pc # "failed" => exit_code = None
    /\ error = Some("pass2")
          => /\ pc = "failed" /\ exit_code = Some(1)
             /\ next \in 1..Len(md_files)
             /\ Len(stdout) = next - 1
             /\ \A k \in 1..Len(stdout) : stdout[k].input = md_files[k]
             /\ DOMAIN output = PageFiles
             /\ OutputIsWhatWasWritten
             /\ ~AggregateWritten /\ ~StaticCopied

\* C8's case: two pages written, then a render or write failure on the third
C8_Witness ==
    /\ error = Some("pass2") /\ pc = "failed" /\ exit_code = Some(1)
    /\ Len(md_files) = 3 /\ next = 3 /\ Len(stdout) = 2
    /\ Readable(md_files[3]) /\ posts # <<>>
    /\ Cardinality(PageFiles) = 2

====
